---- MODULE Spec2Model ----
\* Model of the stripehooks webhook pipeline: handle_stripe_webhook (request
\* path), process_payment_succeeded (background task, one step per await that
\* touches shared state), the SQLite stores of app/database.py and the two
\* notification channels of app/notifications.py.
EXTENDS Integers, Sequences, FiniteSets, TLC

\* ---------------------------------------------------------------- bounds
MaxReq == 2          \* webhook requests delivered in one behaviour
MaxAdminReq == 1     \* webhook requests in the behaviours with admin writes
MaxAdminOps == 1     \* admin-surface writes interleaved with those requests
MaxRuleOps == 3      \* writes to the rule store in one behaviour of SpecRules
MaxPayments == 3     \* matched payments recorded in one behaviour of SpecHistory
MaxAuthReq == 3      \* requests to the admin surface in one behaviour of SpecAuth

\* ------------------------------------------------------------ value sets
None == "None"       \* Python's None / a missing dict key / a missing row

Reqs == 1..MaxReq

\* Python truthiness of an Optional[str]: None and "" are falsy.
Truthy(v) == v # None /\ v # ""

\* ---------------------------------------------------------------- events
\* Parsed event envelopes. The three product-id paths are carried as the
\* value get_nested finds under each path (None: the path is absent).
SucceededType == "payment_intent.succeeded"

Event(type, id, pd, mp, mo, amount) ==
    [type |-> type, id |-> id,
     payment_details_order_reference |-> pd,
     metadata_product_id |-> mp,
     metadata_order_reference |-> mo,
     amount |-> amount]

Events ==
    { Event("charge.refunded", "pi_1", None, "prod_A", None, 1999),
      Event(SucceededType, "pi_1", None, "prod_A", None, 1999),
      Event(SucceededType, "pi_1", "prod_B", "prod_A", None, 1999),
      Event(SucceededType, "pi_1", None, "prod_A", None, 2500),
      Event(SucceededType, "pi_1", "", "", None, 1999),
      Event(SucceededType, "pi_2", None, "", "prod_A", 500) }

NoEvent == Event(None, None, None, None, None, 0)

\* What stripe.Webhook.construct_event does with a request.
PayloadKinds == {"malformed", "bad_signature", "authentic"}

\* get_nested(event, "data.object." + path): the value under the path or None.
get_nested(event, path) ==
    CASE path = "payment_details.order_reference" -> event.payment_details_order_reference
      [] path = "metadata.product_id" -> event.metadata_product_id
      [] path = "metadata.order_reference" -> event.metadata_order_reference
      [] OTHER -> None

paths == << "payment_details.order_reference",
            "metadata.product_id",
            "metadata.order_reference" >>

RECURSIVE FirstTruthy(_, _)
FirstTruthy(event, i) ==
    IF i > Len(paths) THEN None
    ELSE IF Truthy(get_nested(event, paths[i])) THEN get_nested(event, paths[i])
    ELSE FirstTruthy(event, i + 1)

\* Variant: falls back to a literal default instead of None.
extract_product_id_default(event) ==
    IF FirstTruthy(event, 1) = None THEN "unknown" ELSE FirstTruthy(event, 1)

extract_product_id(event) == FirstTruthy(event, 1)

\* ------------------------------------------- get_nested on a parsed payload
\* A parsed JSON payload is the function from the key paths of its leaves to
\* the leaf values; a path that is the proper prefix of a leaf path is a dict.
StrLeaf(s) == [t |-> "str", s |-> s, n |-> 0]
IntLeaf(n) == [t |-> "int", s |-> "", n |-> n]
NullLeaf == [t |-> "null", s |-> "", n |-> 0]     \* JSON null, Python None
DictValue == [t |-> "dict", s |-> "{...}", n |-> 0] \* a non-empty dict as a value

IsPrefix(p, q) == Len(p) <= Len(q) /\ SubSeq(q, 1, Len(p)) = p

\* isinstance(current, dict) for the node at path p.
IsDict(data, p) == \E q \in DOMAIN data : Len(q) > Len(p) /\ IsPrefix(p, q)

\* "key in current" for the dict at path p.
HasKey(data, p, key) == \E q \in DOMAIN data : IsPrefix(Append(p, key), q)

\* The loop of get_nested from the node at path p on, keys[i..] still to go.
RECURSIVE Walk(_, _, _, _)
Walk(data, p, keys, i) ==
    IF i > Len(keys)
    THEN IF p \in DOMAIN data THEN data[p] ELSE DictValue
    ELSE IF IsDict(data, p) /\ HasKey(data, p, keys[i])
         THEN Walk(data, Append(p, keys[i]), keys, i + 1)
         ELSE NullLeaf

\* get_nested(data, path), the path already split at the dots.
get_nested_dict(data, keys) == Walk(data, << >>, keys, 1)

\* Python truthiness of a value: None, "" and 0 are falsy.
TruthyValue(v) ==
    \/ v.t = "str" /\ v.s # ""
    \/ v.t = "int" /\ v.n # 0
    \/ v.t = "dict"

\* str(val)
str(v) ==
    CASE v.t = "str" -> v.s
      [] v.t = "int" -> ToString(v.n)
      [] v.t = "dict" -> v.s
      [] OTHER -> "None"

\* Variant: the metadata product id is looked at before the order reference.
PathKeys_metadata_first ==
    << << "data", "object", "metadata", "product_id" >>,
       << "data", "object", "payment_details", "order_reference" >>,
       << "data", "object", "metadata", "order_reference" >> >>

\* The list "paths" of extract_product_id, each path split at the dots.
PathKeys ==
    << << "data", "object", "payment_details", "order_reference" >>,
       << "data", "object", "metadata", "product_id" >>,
       << "data", "object", "metadata", "order_reference" >> >>

RECURSIVE FirstTruthyPath(_, _)
FirstTruthyPath(data, i) ==
    IF i > Len(PathKeys) THEN None
    ELSE IF TruthyValue(get_nested_dict(data, PathKeys[i]))
         THEN str(get_nested_dict(data, PathKeys[i]))
    ELSE FirstTruthyPath(data, i + 1)

\* extract_product_id on a parsed payload.
extract_product_id_dict(data) == FirstTruthyPath(data, 1)

\* Payloads: what data.object.payment_details and data.object.metadata hold.
EmptyDict == [p \in {} |-> NullLeaf]

Under(prefix, key, v) == Append(prefix, key) :> v

ObjectPath == << "data", "object" >>

PaymentDetailsShapes ==
    { EmptyDict,
      Under(ObjectPath, "payment_details", StrLeaf("text")),
      Under(Append(ObjectPath, "payment_details"), "other", StrLeaf("y")),
      Under(ObjectPath \o << "payment_details", "order_reference" >>, "id", StrLeaf("z")) }
    \cup { Under(Append(ObjectPath, "payment_details"), "order_reference", v) :
             v \in {StrLeaf(""), StrLeaf("ref_1"), IntLeaf(0), IntLeaf(7), NullLeaf} }

MetadataShapes ==
    { EmptyDict, Under(ObjectPath, "metadata", StrLeaf("text")) }
    \cup { Under(Append(ObjectPath, "metadata"), "product_id", v) :
             v \in {StrLeaf(""), StrLeaf("prod_A"), NullLeaf} }
    \cup { Under(Append(ObjectPath, "metadata"), "order_reference", v) :
             v \in {StrLeaf(""), StrLeaf("prod_B")} }
    \cup { Under(Append(ObjectPath, "metadata"), "product_id", v)
             @@ Under(Append(ObjectPath, "metadata"), "order_reference", w) :
             v \in {StrLeaf(""), StrLeaf("prod_A"), NullLeaf},
             w \in {StrLeaf(""), StrLeaf("prod_B")} }

Payloads ==
    { (<< "type" >> :> StrLeaf(SucceededType))
        @@ (Under(ObjectPath, "id", StrLeaf("pi_1")) @@ (pd @@ md)) :
        pd \in PaymentDetailsShapes, md \in MetadataShapes }
    \cup { (<< "type" >> :> StrLeaf(SucceededType)),
           (<< "type" >> :> StrLeaf(SucceededType)) @@ (<< "data" >> :> StrLeaf("text")),
           (<< "type" >> :> StrLeaf(SucceededType)) @@ Under(<< "data" >>, "object", NullLeaf) }

\* ----------------------------------------------------------------- state
VARIABLES
    settings,          \* settings table: key -> value or None
    product_rules,     \* product_rules table: set of rows
    nextRuleId,        \* AUTOINCREMENT counter of product_rules
    payment_history,   \* payment_history table: rows in insertion order
    request,           \* per request: input, response status, what the handler did
    task,              \* per request: the background task process_payment_succeeded
    adminOps,          \* number of admin writes so far
    adminLast,         \* the last admin request and its response status
    call               \* input and result of a function applied on its own

vars == << settings, product_rules, nextRuleId, payment_history, request, task,
           adminOps, adminLast, call >>

SettingKeys == {"webhook_secret", "stripe_api_key", "telegram_bot_token",
                "smtp_host", "smtp_port"}

get_setting(key) == settings[key]

Rule(id, pid, type, value, enabled) ==
    [id |-> id, product_id |-> pid, action_type |-> type,
     action_value |-> value, enabled |-> enabled]

\* ------------------------------------------------------ database.py reads
\* Rows of a set of rules in rowid order, as the SELECT returns them.
RECURSIVE RowsInIdOrder(_)
RowsInIdOrder(S) ==
    IF S = {} THEN << >>
    ELSE LET first == CHOOSE x \in S : \A y \in S : x.id <= y.id
         IN << [id |-> first.id, type |-> first.action_type, value |-> first.action_value] >>
            \o RowsInIdOrder(S \ {first})

\* Variant: include_disabled = True, every row of the product.
get_product_rules_include_disabled(product_id) ==
    RowsInIdOrder({ row \in product_rules : row.product_id = product_id })

\* get_product_rules(product_id): only the enabled rows of the product.
get_product_rules(product_id) ==
    RowsInIdOrder({ row \in product_rules : row.product_id = product_id /\ row.enabled })

get_rules_for_product(product_id) == get_product_rules(product_id)

\* ----------------------------------------------------- database.py writes
HistoryRow(product_id, product_name, amount, currency, payment_intent_id, created_at) ==
    [product_id |-> product_id, product_name |-> product_name, amount |-> amount,
     currency |-> currency, payment_intent_id |-> payment_intent_id,
     created_at |-> created_at]

\* Variant: plain INSERT with no uniqueness constraint.
insert_payment_history_always(history, row) == Append(history, row)

\* Variant: the uniqueness constraint covers the whole row instead of the id.
insert_payment_history_row_unique(history, row) ==
    IF \E k \in 1..Len(history) : history[k] = row THEN history ELSE Append(history, row)

\* Variant: INSERT OR REPLACE, the later delivery overwrites the row.
insert_payment_history_replace(history, row) ==
    Append(SelectSeq(history, LAMBDA h : h.payment_intent_id # row.payment_intent_id), row)

\* INSERT OR IGNORE under UNIQUE(payment_intent_id): the table after the insert.
insert_payment_history(history, row) ==
    IF \E k \in 1..Len(history) : history[k].payment_intent_id = row.payment_intent_id
    THEN history
    ELSE Append(history, row)

\* ------------------------------------------------------- notifications.py
NumericPorts == {"25", "465", "587"}

\* send_telegram_message once the token was read: without a token no HTTP
\* request is made; otherwise the Bot API answers ok or not.
telegram_result(token) ==
    IF ~Truthy(token) THEN {"not_configured"} ELSE {"sent", "failed"}

\* Variant: the port is parsed before the host is looked at.
email_result_port_first(host, port_str) ==
    IF Truthy(port_str) /\ port_str \notin NumericPorts THEN {"raise"}
    ELSE IF ~Truthy(host) THEN {"not_configured"}
    ELSE {"sent", "failed"}

\* send_email once host and port were read: without a host no connection is
\* opened. int(port_str) sits outside the try block, so a non-numeric port
\* raises ValueError.
email_result(host, port_str) ==
    IF ~Truthy(host) THEN {"not_configured"}
    ELSE IF Truthy(port_str) /\ port_str \notin NumericPorts THEN {"raise"}
    ELSE {"sent", "failed"}

\* Possible results of send_telegram_message for the current settings.
send_telegram_message(chat_id) == telegram_result(get_setting("telegram_bot_token"))

\* Possible results of send_email for the current settings.
send_email(to_email) == email_result(get_setting("smtp_host"), get_setting("smtp_port"))

\* Body of the dispatch loop for one rule.
dispatch_rule(rule) ==
    IF rule.type = "telegram" THEN send_telegram_message(rule.value)
    ELSE IF rule.type = "email" THEN send_email(rule.value)
    ELSE {"unknown_type"}

\* _get_product_name: the product id without an API key or on any failure.
get_product_name(product_id) ==
    IF ~Truthy(get_setting("stripe_api_key")) THEN {product_id}
    ELSE {product_id, "Name of " \o product_id}

\* ------------------------------------------------------------- webhook.py
\* Variant: without a secret the event is accepted unverified.
handle_stripe_webhook_fail_open(webhook_secret, kind, event) ==
    IF kind # "authentic" /\ Truthy(webhook_secret)
    THEN [status |-> 400, sig_checked |-> TRUE, add_task |-> FALSE]
    ELSE [status |-> 200, sig_checked |-> Truthy(webhook_secret),
          add_task |-> event.type = SucceededType]

\* Variant: SignatureVerificationError is not turned into a rejection.
handle_stripe_webhook_sig_ignored(webhook_secret, kind, event) ==
    IF ~Truthy(webhook_secret)
    THEN [status |-> 500, sig_checked |-> FALSE, add_task |-> FALSE]
    ELSE IF kind = "malformed"
    THEN [status |-> 400, sig_checked |-> TRUE, add_task |-> FALSE]
    ELSE [status |-> 200, sig_checked |-> TRUE, add_task |-> event.type = SucceededType]

\* Variant: the task is added for every authenticated event type.
handle_stripe_webhook_any_type(webhook_secret, kind, event) ==
    IF ~Truthy(webhook_secret)
    THEN [status |-> 500, sig_checked |-> FALSE, add_task |-> FALSE]
    ELSE IF kind # "authentic"
    THEN [status |-> 400, sig_checked |-> TRUE, add_task |-> FALSE]
    ELSE [status |-> 200, sig_checked |-> TRUE, add_task |-> TRUE]

\* Variant: the task is added before construct_event has verified the request.
handle_stripe_webhook_task_first(webhook_secret, kind, event) ==
    IF ~Truthy(webhook_secret)
    THEN [status |-> 500, sig_checked |-> FALSE, add_task |-> FALSE]
    ELSE IF kind # "authentic"
    THEN [status |-> 400, sig_checked |-> TRUE, add_task |-> TRUE]
    ELSE [status |-> 200, sig_checked |-> TRUE, add_task |-> event.type = SucceededType]

\* handle_stripe_webhook: status, whether construct_event ran, whether the
\* background task was added.
handle_stripe_webhook(webhook_secret, kind, event) ==
    IF ~Truthy(webhook_secret)
    THEN [status |-> 500, sig_checked |-> FALSE, add_task |-> FALSE]
    ELSE IF kind # "authentic"
    THEN [status |-> 400, sig_checked |-> TRUE, add_task |-> FALSE]
    ELSE [status |-> 200, sig_checked |-> TRUE, add_task |-> event.type = SucceededType]

NoTask ==
    [pc |-> "none", event |-> NoEvent, product_id |-> None, looked_up |-> FALSE,
     rules |-> << >>, product_name |-> None, outcomes |-> << >>, result |-> None]

\* config: the settings table as it was when the request was handled.
NoRequest ==
    [kind |-> None, event |-> NoEvent, status |-> 0, sig_checked |-> FALSE,
     config |-> [k \in SettingKeys |-> None]]

\* No admin request yet; otherwise the endpoint, its arguments and its status.
NoAdmin ==
    [op |-> None, status |-> 0, id |-> 0, product_id |-> None, action_type |-> None,
     action_value |-> None, enabled |-> FALSE]

NoCall == [fn |-> None]

\* ------------------------------------------------------------------ Init
Unset == [k \in SettingKeys |-> None]

InitSettings ==
    { Unset,
      [Unset EXCEPT !["webhook_secret"] = "whsec_1", !["stripe_api_key"] = "sk_1",
                    !["telegram_bot_token"] = "tok_1", !["smtp_host"] = "smtp.example.com",
                    !["smtp_port"] = "587"],
      [Unset EXCEPT !["webhook_secret"] = "whsec_1", !["telegram_bot_token"] = "tok_1",
                    !["smtp_host"] = "", !["smtp_port"] = "abc"],
      [Unset EXCEPT !["webhook_secret"] = "whsec_1", !["smtp_host"] = "smtp.example.com",
                    !["smtp_port"] = "abc", !["telegram_bot_token"] = "tok_1"],
      [Unset EXCEPT !["webhook_secret"] = "whsec_1", !["smtp_host"] = "smtp.example.com",
                    !["smtp_port"] = "465"] }

InitRules ==
    { {},
      { Rule(1, "prod_A", "email", "ops@example.com", TRUE),
        Rule(2, "prod_A", "telegram", "4242", TRUE) },
      { Rule(1, "prod_A", "telegram", "4242", FALSE),
        Rule(2, "prod_B", "email", "ops@example.com", TRUE) },
      { Rule(1, "prod_A", "telegram", "4242", TRUE),
        Rule(2, "prod_B", "email", "ops@example.com", TRUE) },
      { Rule(1, "prod_A", "telegram", "4242", TRUE),
        Rule(2, "prod_A", "email", "billing@example.com", TRUE) } }

Init ==
    /\ settings \in InitSettings
    /\ product_rules \in InitRules
    /\ nextRuleId = 3
    /\ payment_history = << >>
    /\ request = [r \in Reqs |-> NoRequest]
    /\ task = [r \in Reqs |-> NoTask]
    /\ adminOps = 0
    /\ adminLast = NoAdmin
    /\ call = NoCall

\* -------------------------------------------------------- request path
\* POST /webhook/stripe. Requests are numbered in arrival order.
stripe_webhook(r) ==
    /\ request[r].status = 0
    /\ \A q \in Reqs : q < r => request[q].status # 0
    /\ \E kind \in PayloadKinds :
       \E event \in (IF kind = "authentic" THEN Events ELSE {NoEvent}) :
         LET out == handle_stripe_webhook(get_setting("webhook_secret"), kind, event)
         IN /\ request' = [request EXCEPT ![r] =
                   [kind |-> kind, event |-> event, status |-> out.status,
                    sig_checked |-> out.sig_checked, config |-> settings]]
            /\ task' = IF out.add_task
                       THEN [task EXCEPT ![r] = [NoTask EXCEPT !.pc = "scheduled", !.event = event]]
                       ELSE task
    /\ UNCHANGED << settings, product_rules, nextRuleId, payment_history, adminOps, adminLast, call >>

\* ------------------------------------------------------ background task
\* Variant: no early return on an empty rule list.
early_return_no_rule_check(product_id, rules) ==
    IF ~Truthy(product_id) THEN "extraction_failed" ELSE "continue"

\* The two early returns at the head of process_payment_succeeded.
early_return(product_id, rules) ==
    IF ~Truthy(product_id) THEN "extraction_failed"
    ELSE IF rules = << >> THEN "no_rules"
    ELSE "continue"

\* Variant: the loop stops after the first rule.
loop_finished_first(i, rules) == i >= 1 \/ i >= Len(rules)

\* "for rule in rules": rule i was the last one.
loop_finished(i, rules) == i >= Len(rules)

\* Variant: the notifications are dispatched before the payment is recorded.
step_after_send_first(step) ==
    CASE step = "resolve" -> "product_name"
      [] step = "product_name" -> "dispatch"
      [] step = "dispatch" -> "insert"
      [] OTHER -> "done"

\* Order of the awaited steps of process_payment_succeeded once a rule was
\* resolved: _get_product_name, insert_payment_history, the dispatch loop.
step_after(step) ==
    CASE step = "resolve" -> "product_name"
      [] step = "product_name" -> "insert"
      [] step = "insert" -> "dispatch"
      [] OTHER -> "done"

\* The task record t on reaching a step; a loop over no (more) rule is left
\* at once, and the function returns after its last step.
Goto(t, step) ==
    LET target == IF step = "dispatch" /\ loop_finished(Len(t.outcomes), t.rules)
                  THEN step_after("dispatch") ELSE step
    IN [t EXCEPT !.pc = target,
                 !.result = IF target = "done" THEN "completed" ELSE t.result]

\* process_payment_succeeded up to and including the rule lookup.
task_resolve(r) ==
    /\ task[r].pc = "scheduled"
    /\ LET product_id == extract_product_id(task[r].event)
           rules == get_rules_for_product(product_id)
           branch == early_return(product_id, rules)
       IN task' = [task EXCEPT ![r] =
            IF branch = "extraction_failed"
            THEN [@ EXCEPT !.pc = "done", !.result = "extraction_failed"]
            ELSE IF branch = "no_rules"
            THEN [@ EXCEPT !.pc = "done", !.product_id = product_id, !.looked_up = TRUE,
                           !.result = "no_rules"]
            ELSE Goto([@ EXCEPT !.product_id = product_id, !.looked_up = TRUE,
                                !.rules = rules], step_after("resolve"))]
    /\ UNCHANGED << settings, product_rules, nextRuleId, payment_history, request, adminOps, adminLast, call >>

\* await _get_product_name(product_id)
task_product_name(r) ==
    /\ task[r].pc = "product_name"
    /\ \E name \in get_product_name(task[r].product_id) :
         task' = [task EXCEPT ![r] =
                    Goto([@ EXCEPT !.product_name = name], step_after("product_name"))]
    /\ UNCHANGED << settings, product_rules, nextRuleId, payment_history, request, adminOps, adminLast, call >>

\* await insert_payment_history(...): the statement commits, or the store
\* raises (e.g. sqlite3.OperationalError) and the exception leaves the task.
task_insert(r) ==
    /\ task[r].pc = "insert"
    /\ LET e == task[r].event
           row == HistoryRow(task[r].product_id, task[r].product_name, e.amount,
                             "usd", e.id, 0)
       IN \/ /\ payment_history' = insert_payment_history(payment_history, row)
             /\ task' = [task EXCEPT ![r] = Goto(@, step_after("insert"))]
          \/ /\ payment_history' = payment_history
             /\ task' = [task EXCEPT ![r] = [@ EXCEPT !.pc = "raised", !.result = "db_error"]]
    /\ UNCHANGED << settings, product_rules, nextRuleId, request, adminOps, adminLast, call >>

\* Results of the loop body for one rule under a given settings table.
rule_result(store, rule) ==
    IF rule.type = "telegram" THEN telegram_result(store["telegram_bot_token"])
    ELSE IF rule.type = "email" THEN email_result(store["smtp_host"], store["smtp_port"])
    ELSE {"unknown_type"}

\* Variant: the sends use a settings snapshot taken when the request came in.
task_dispatch_snapshot(r) ==
    /\ task[r].pc = "dispatch"
    /\ LET i == Len(task[r].outcomes) + 1
       IN \E outcome \in rule_result(request[r].config, task[r].rules[i]) :
            task' = [task EXCEPT ![r] =
              IF outcome = "raise"
              THEN [@ EXCEPT !.pc = "raised", !.result = "send_error"]
              ELSE Goto([@ EXCEPT !.outcomes = Append(@, outcome)], "dispatch")]
    /\ UNCHANGED << settings, product_rules, nextRuleId, payment_history, request,
                    adminOps, adminLast, call >>

\* Variant: every iteration reads the enabled rules of the product again.
task_dispatch_reread(r) ==
    /\ task[r].pc = "dispatch"
    /\ LET i == Len(task[r].outcomes) + 1
           live == get_rules_for_product(task[r].product_id)
       IN IF i > Len(live)
          THEN task' = [task EXCEPT ![r] =
                          [@ EXCEPT !.rules = live, !.pc = "done", !.result = "completed"]]
          ELSE \E outcome \in dispatch_rule(live[i]) :
                 task' = [task EXCEPT ![r] =
                   IF outcome = "raise"
                   THEN [@ EXCEPT !.rules = live, !.pc = "raised", !.result = "send_error"]
                   ELSE Goto([@ EXCEPT !.rules = live, !.outcomes = Append(@, outcome)],
                             "dispatch")]
    /\ UNCHANGED << settings, product_rules, nextRuleId, payment_history, request,
                    adminOps, adminLast, call >>

\* One iteration of "for rule in rules".
task_dispatch(r) ==
    /\ task[r].pc = "dispatch"
    /\ LET i == Len(task[r].outcomes) + 1
       IN \E outcome \in dispatch_rule(task[r].rules[i]) :
            task' = [task EXCEPT ![r] =
              IF outcome = "raise"
              THEN [@ EXCEPT !.pc = "raised", !.result = "send_error"]
              ELSE Goto([@ EXCEPT !.outcomes = Append(@, outcome)], "dispatch")]
    /\ UNCHANGED << settings, product_rules, nextRuleId, payment_history, request, adminOps, adminLast, call >>

\* --------------------------------------------------------- admin surface
set_setting(store, key, value) == [store EXCEPT ![key] = value]

\* UPDATE product_rules SET enabled = ? WHERE id = ?
set_rule_enabled(rules, rule_id, enabled) ==
    { IF row.id = rule_id THEN [row EXCEPT !.enabled = enabled] ELSE row : row \in rules }

\* DELETE FROM product_rules WHERE id = ?
delete_product_rule(rules, rule_id) == { row \in rules : row.id # rule_id }

\* INSERT INTO product_rules (..., enabled) VALUES (?, ?, ?, 1) under
\* UNIQUE(product_id, action_type, action_value): a duplicate raises
\* sqlite3.IntegrityError and the table is left as it was.
add_product_rule(rules, next_id, product_id, action_type, action_value) ==
    IF \E row \in rules : /\ row.product_id = product_id
                          /\ row.action_type = action_type
                          /\ row.action_value = action_value
    THEN [rules |-> rules, next_id |-> next_id, error |-> TRUE, lastrowid |-> 0]
    ELSE [rules |-> rules \cup {Rule(next_id, product_id, action_type, action_value, TRUE)},
          next_id |-> next_id + 1, error |-> FALSE, lastrowid |-> next_id]

\* POST /admin/smtp (host and port as typed, stripped).
save_smtp ==
    /\ adminOps < MaxAdminOps
    /\ \E host \in {"", "smtp.example.com"} : \E port \in {"587", "abc"} :
         settings' = set_setting(set_setting(settings, "smtp_host", host), "smtp_port", port)
    /\ adminOps' = adminOps + 1
    /\ adminLast' = [NoAdmin EXCEPT !.op = "save_smtp", !.status = 302]
    /\ UNCHANGED << product_rules, nextRuleId, payment_history, request, task, call >>

\* POST /admin/products/rule/{rule_id}/toggle -> set_rule_enabled
toggle_rule ==
    /\ adminOps < MaxAdminOps
    /\ \E row \in product_rules : \E enabled \in {~row.enabled} :
         /\ product_rules' = set_rule_enabled(product_rules, row.id, enabled)
         /\ adminLast' = [NoAdmin EXCEPT !.op = "toggle_rule", !.status = 302,
                                         !.id = row.id, !.enabled = enabled]
    /\ adminOps' = adminOps + 1
    /\ UNCHANGED << settings, nextRuleId, payment_history, request, task, call >>

\* POST /admin/products/rule/{rule_id}/delete -> delete_product_rule
delete_rule ==
    /\ adminOps < MaxAdminOps
    /\ \E row \in product_rules :
         /\ product_rules' = delete_product_rule(product_rules, row.id)
         /\ adminLast' = [NoAdmin EXCEPT !.op = "delete_rule", !.status = 302, !.id = row.id]
    /\ adminOps' = adminOps + 1
    /\ UNCHANGED << settings, nextRuleId, payment_history, request, task, call >>

\* What the add-rule form can carry.
FormProducts == {"prod_A"}
FormTypes == {"email", "sms"}
FormValues == {" ops@example.com ", "billing@example.com", " "}

\* str.strip() on the values of the form.
strip(v) ==
    CASE v = " ops@example.com " -> "ops@example.com"
      [] v = " " -> ""
      [] OTHER -> v

\* POST /admin/products/rule -> add_product_rule. The IntegrityError of a
\* duplicate is not caught: the request ends in a 500.
add_rule ==
    /\ adminOps < MaxAdminOps
    /\ \E product_id \in FormProducts : \E action_type \in FormTypes :
       \E raw_value \in FormValues :
         LET action_value == strip(raw_value)
             form == [NoAdmin EXCEPT !.op = "add_rule", !.product_id = product_id,
                                     !.action_type = action_type,
                                     !.action_value = action_value]
             added == add_product_rule(product_rules, nextRuleId, product_id,
                                       action_type, action_value)
         IN IF action_type \notin {"email", "telegram"} \/ action_value = ""
            THEN /\ adminLast' = [form EXCEPT !.status = 400]
                 /\ UNCHANGED << product_rules, nextRuleId >>
            ELSE /\ product_rules' = added.rules
                 /\ nextRuleId' = added.next_id
                 /\ adminLast' = [form EXCEPT !.status = IF added.error THEN 500 ELSE 302,
                                              !.id = added.lastrowid]
    /\ adminOps' = adminOps + 1
    /\ UNCHANGED << settings, payment_history, request, task, call >>

\* The webhook pipeline under a fixed configuration.
Next ==
    \/ \E r \in Reqs : stripe_webhook(r)
    \/ \E r \in Reqs : task_resolve(r)
    \/ \E r \in Reqs : task_product_name(r)
    \/ \E r \in Reqs : task_insert(r)
    \/ \E r \in Reqs : task_dispatch(r)

Spec == Init /\ [][Next]_vars

\* The pipeline with the admin surface writing settings and rules meanwhile.
NextAdmin ==
    \/ \E r \in 1..MaxAdminReq : stripe_webhook(r)
    \/ \E r \in 1..MaxAdminReq : task_resolve(r)
    \/ \E r \in 1..MaxAdminReq : task_product_name(r)
    \/ \E r \in 1..MaxAdminReq : task_insert(r)
    \/ \E r \in 1..MaxAdminReq : task_dispatch(r)
    \/ save_smtp
    \/ toggle_rule
    \/ delete_rule
    \/ add_rule

\* The configurations the admin behaviours start from: everything set, or
\* SMTP saved without a host.
InitAdminSettings ==
    { s \in InitSettings : s["stripe_api_key"] # None \/ s["smtp_host"] = "" }

\* The rule tables they start from: prod_A with an email and a telegram
\* rule, or with its only rule disabled.
InitAdminRules ==
    { rules \in InitRules :
        \E row \in rules : /\ row.id = 1 /\ row.product_id = "prod_A"
                           /\ (row.action_type = "email" \/ ~row.enabled) }

InitAdmin ==
    /\ settings \in InitAdminSettings
    /\ product_rules \in InitAdminRules
    /\ nextRuleId = 3
    /\ payment_history = << >>
    /\ request = [r \in Reqs |-> NoRequest]
    /\ task = [r \in Reqs |-> NoTask]
    /\ adminOps = 0
    /\ adminLast = NoAdmin
    /\ call = NoCall

SpecAdmin == InitAdmin /\ [][NextAdmin]_vars

\* ---------------------------------------- functions applied on their own
\* Every store empty, no request, no task.
Idle ==
    /\ settings = Unset
    /\ product_rules = {}
    /\ nextRuleId = 1
    /\ payment_history = << >>
    /\ request = [r \in Reqs |-> NoRequest]
    /\ task = [r \in Reqs |-> NoTask]
    /\ adminOps = 0
    /\ adminLast = NoAdmin

IdleUnchanged ==
    UNCHANGED << settings, product_rules, nextRuleId, payment_history, request, task,
                 adminOps, adminLast >>

\* extract_product_id applied to one payload.
InitExtract ==
    /\ Idle
    /\ \E data \in Payloads :
         call = [fn |-> "extract_product_id", data |-> data, returned |-> FALSE,
                 result |-> None]

extract_call ==
    /\ call.fn = "extract_product_id"
    /\ ~call.returned
    /\ call' = [call EXCEPT !.returned = TRUE, !.result = extract_product_id_dict(call.data)]
    /\ IdleUnchanged

NextExtract == extract_call

SpecExtract == InitExtract /\ [][NextExtract]_vars

\* The rule store under sequences of its three writers, from the empty table.
RuleProducts == {"prod_A", "prod_B"}
RuleActions == { [type |-> "email", value |-> "ops@example.com"],
                 [type |-> "telegram", value |-> "4242"] }
RuleIds == 1..MaxRuleOps

RuleCall(fn, id, product_id, enabled, was, result) ==
    [fn |-> fn, id |-> id, product_id |-> product_id, enabled |-> enabled,
     was |-> was, result |-> result, ops |-> call.ops + 1]

\* The row with this id before the call: absent, enabled or disabled.
RowState(rule_id) ==
    IF \E row \in product_rules : row.id = rule_id /\ row.enabled THEN "enabled"
    ELSE IF \E row \in product_rules : row.id = rule_id THEN "disabled"
    ELSE "absent"

InitRuleStore ==
    /\ Idle
    /\ call = [fn |-> "init_db", id |-> 0, product_id |-> None, enabled |-> FALSE,
               was |-> "absent", result |-> FALSE, ops |-> 0]

RuleStoreUnchanged ==
    UNCHANGED << settings, payment_history, request, task, adminOps, adminLast >>

db_add_product_rule ==
    /\ call.ops < MaxRuleOps
    /\ \E product_id \in RuleProducts : \E action \in RuleActions :
         LET added == add_product_rule(product_rules, nextRuleId, product_id,
                                       action.type, action.value)
         IN /\ product_rules' = added.rules
            /\ nextRuleId' = added.next_id
            /\ call' = RuleCall("add_product_rule", added.lastrowid, product_id, TRUE,
                                "absent", ~added.error)
    /\ RuleStoreUnchanged

db_delete_product_rule ==
    /\ call.ops < MaxRuleOps
    /\ \E rule_id \in RuleIds :
         /\ product_rules' = delete_product_rule(product_rules, rule_id)
         /\ call' = RuleCall("delete_product_rule", rule_id, None, FALSE,
                             RowState(rule_id), RowState(rule_id) # "absent")
    /\ UNCHANGED nextRuleId
    /\ RuleStoreUnchanged

db_set_rule_enabled ==
    /\ call.ops < MaxRuleOps
    /\ \E rule_id \in RuleIds : \E enabled \in BOOLEAN :
         /\ product_rules' = set_rule_enabled(product_rules, rule_id, enabled)
         /\ call' = RuleCall("set_rule_enabled", rule_id, None, enabled,
                             RowState(rule_id), RowState(rule_id) # "absent")
    /\ UNCHANGED nextRuleId
    /\ RuleStoreUnchanged

NextRules ==
    \/ db_add_product_rule
    \/ db_delete_product_rule
    \/ db_set_rule_enabled

SpecRules == InitRuleStore /\ [][NextRules]_vars

\* --------------------------------- client name and email of a payment
\* "a or b or c or ''" over a sequence of candidate values.
RECURSIVE FirstOr(_)
FirstOr(candidates) ==
    IF candidates = << >> THEN ""
    ELSE IF Truthy(Head(candidates)) THEN Head(candidates)
    ELSE FirstOr(Tail(candidates))

\* _get_customer_info(customer_id): whether stripe.Customer.retrieve is
\* issued, and the (name, email) returned; response is what Stripe answers.
get_customer_info(api_key, customer_id, response) ==
    IF ~Truthy(api_key) \/ ~Truthy(customer_id)
    THEN [retrieved |-> FALSE, name |-> "", email |-> ""]
    ELSE IF response.raises
    THEN [retrieved |-> TRUE, name |-> "", email |-> ""]
    ELSE [retrieved |-> TRUE, name |-> FirstOr(<< response.name >>),
          email |-> FirstOr(<< response.email >>)]

\* The client_name / client_email block of process_payment_succeeded.
client_info(pi, api_key, response) ==
    LET name1 == IF pi.charges THEN FirstOr(<< pi.billing_name >>) ELSE ""
        email1 == IF pi.charges THEN FirstOr(<< pi.billing_email >>) ELSE ""
        name2 == IF name1 = ""
                 THEN FirstOr(<< pi.shipping_name, pi.metadata_customer_name, pi.metadata_name >>)
                 ELSE name1
        email2 == IF email1 = ""
                  THEN FirstOr(<< pi.receipt_email, pi.metadata_customer_email,
                                  pi.metadata_email >>)
                  ELSE email1
        is_str == pi.customer \notin {None, "<dict>"}
        cust == IF is_str THEN get_customer_info(api_key, pi.customer, response)
                ELSE [retrieved |-> FALSE, name |-> "", email |-> ""]
    IN [name_before |-> name2, email_before |-> email2,
        retrieved |-> cust.retrieved,
        client_name |-> IF is_str /\ name2 = "" THEN cust.name ELSE name2,
        client_email |-> IF is_str /\ email2 = "" THEN cust.email ELSE email2]

\* Payment intents: charges.data[0].billing_details, shipping, metadata,
\* receipt_email and customer (absent, empty, an id, or an expanded object).
PaymentIntents ==
    { [charges |-> FALSE, billing_name |-> None, billing_email |-> None] @@ rest :
        rest \in [shipping_name : {None, "Ship Name"},
                  metadata_customer_name : {None, "Meta Customer"},
                  metadata_name : {None, "Meta Name"},
                  receipt_email : {None, "receipt@example.com"},
                  metadata_customer_email : {None, "metac@example.com"},
                  metadata_email : {None, "meta@example.com"},
                  customer : {None, "", "cus_1", "<dict>"}] }
    \cup [charges : {TRUE},
          billing_name : {None, "Bill Name"},
          billing_email : {None, "", "bill@example.com"},
          shipping_name : {None, "Ship Name"},
          metadata_customer_name : {None},
          metadata_name : {None, "Meta Name"},
          receipt_email : {None, "receipt@example.com"},
          metadata_customer_email : {None},
          metadata_email : {None, "meta@example.com"},
          customer : {None, "", "cus_1", "<dict>"}]

\* What stripe.Customer.retrieve does: raise, or answer with a customer.
CustomerResponses ==
    { [raises |-> TRUE, name |-> None, email |-> None] }
    \cup [raises : {FALSE}, name : {None, "Cust Name"}, email : {None, "cust@example.com"}]

InitCustomer ==
    /\ Idle
    /\ \E pi \in PaymentIntents : \E api_key \in {None, "sk_1"} :
       \E response \in CustomerResponses :
         call = [fn |-> "client_info", pi |-> pi, api_key |-> api_key,
                 response |-> response, returned |-> FALSE,
                 result |-> [name_before |-> "", email_before |-> "", retrieved |-> FALSE,
                             client_name |-> "", client_email |-> ""]]

client_info_call ==
    /\ call.fn = "client_info"
    /\ ~call.returned
    /\ call' = [call EXCEPT !.returned = TRUE,
                            !.result = client_info(call.pi, call.api_key, call.response)]
    /\ IdleUnchanged

NextCustomer == client_info_call

SpecCustomer == InitCustomer /\ [][NextCustomer]_vars

\* ------------------------------------------------ the SMTP session
\* int(port_str) on the port strings in use; anything else raises ValueError.
PortNumbers == [p \in {"25", "465", "587", "2525"} |->
                  CASE p = "25" -> 25 [] p = "465" -> 465 [] p = "587" -> 587
                    [] OTHER -> 2525]

\* save_smtp: a security value outside the three modes is stored as starttls.
smtp_security_saved(form_security) ==
    IF form_security \notin {"none", "starttls", "ssl"} THEN "starttls" ELSE form_security

\* {"ssl": 465, "starttls": 587, "none": 25}.get(security, 587)
default_port(security) ==
    CASE security = "ssl" -> 465
      [] security = "starttls" -> 587
      [] security = "none" -> 25
      [] OTHER -> 587

\* "if user and password: server.login(...)"
login_steps(user, password) ==
    IF Truthy(user) /\ Truthy(password) THEN << "login" >> ELSE << >>

\* Variant: credentials are sent before the connection is upgraded.
smtp_steps_login_first(security, user, password) ==
    IF security = "ssl"
    THEN << "SMTP_SSL" >> \o login_steps(user, password) \o << "sendmail" >>
    ELSE << "SMTP" >> \o login_steps(user, password)
         \o (IF security = "starttls" THEN << "starttls" >> ELSE << >>)
         \o << "sendmail" >>

\* The calls on smtplib the try block of send_email makes, in order.
smtp_steps(security, user, password) ==
    IF security = "ssl"
    THEN << "SMTP_SSL" >> \o login_steps(user, password) \o << "sendmail" >>
    ELSE << "SMTP" >> \o (IF security = "starttls" THEN << "starttls" >> ELSE << >>)
         \o login_steps(user, password) \o << "sendmail" >>

\* send_email for given settings: the result, the port connected to and the
\* smtplib calls made. failed_at is the call that raises, 0 if none does.
send_email_session(host, port_str, security_setting, user, password, failed_at) ==
    LET security == IF Truthy(security_setting) THEN security_setting ELSE "starttls"
        steps == smtp_steps(security, user, password)
    IN IF ~Truthy(host)
       THEN [result |-> "not_configured", port |-> 0, steps |-> << >>]
       ELSE IF Truthy(port_str) /\ port_str \notin DOMAIN PortNumbers
       THEN [result |-> "raise", port |-> 0, steps |-> << >>]
       ELSE [result |-> IF failed_at \in 1..Len(steps) THEN "failed" ELSE "sent",
             port |-> IF Truthy(port_str) THEN PortNumbers[port_str]
                      ELSE default_port(security),
             steps |-> IF failed_at \in 1..Len(steps) THEN SubSeq(steps, 1, failed_at)
                       ELSE steps]

SecurityForms == {"none", "starttls", "ssl", "tls"}
SecuritySettings == {None} \cup { smtp_security_saved(f) : f \in SecurityForms }
PortSettings == {None, "25", "465", "587", "2525", "abc"}
\* The longest session: connect, upgrade, login, send.
LongestSession == Len(smtp_steps("starttls", "user", "secret"))

InitEmail ==
    /\ Idle
    /\ \E host \in {None, "smtp.example.com"} : \E port_str \in PortSettings :
       \E security \in SecuritySettings : \E user \in {None, "user"} :
       \E password \in {None, "secret"} :
         call = [fn |-> "send_email", host |-> host, port_str |-> port_str,
                 security |-> security, user |-> user, password |-> password,
                 returned |-> FALSE,
                 session |-> [result |-> None, port |-> 0, steps |-> << >>]]

send_email_call ==
    /\ call.fn = "send_email"
    /\ ~call.returned
    /\ \E failed_at \in 0..LongestSession :
         call' = [call EXCEPT !.returned = TRUE,
                              !.session = send_email_session(call.host, call.port_str,
                                            call.security, call.user, call.password,
                                            failed_at)]
    /\ IdleUnchanged

NextEmail == send_email_call

SpecEmail == InitEmail /\ [][NextEmail]_vars

\* ------------------------------------- the history key of a payment
\* payment_intent.get("id", "unknown")
pi_id(payment_intent) ==
    IF payment_intent.has_id THEN payment_intent.id ELSE "unknown"

\* Matched payments as they reach the insert: "payment" names the payment
\* made, the rest is what data.object carries (an id or none, the amount).
MatchedPayments ==
    { [payment |-> "first", has_id |-> TRUE, id |-> "pi_1", amount |-> 1999],
      [payment |-> "second", has_id |-> TRUE, id |-> "pi_2", amount |-> 500],
      [payment |-> "refill", has_id |-> TRUE, id |-> "pi_3", amount |-> 1999],
      [payment |-> "third", has_id |-> FALSE, id |-> None, amount |-> 700],
      [payment |-> "fourth", has_id |-> FALSE, id |-> None, amount |-> 900] }

InitHistory ==
    /\ Idle
    /\ call = [fn |-> "insert_payment_history", recorded |-> {}, last |-> None, n |-> 0]

\* The insert of process_payment_succeeded for one matched payment: the
\* statement commits, or the store raises and nothing is written.
record_payment ==
    /\ call.fn = "insert_payment_history"
    /\ call.n < MaxPayments
    /\ \E payment_intent \in MatchedPayments :
         LET row == HistoryRow("prod_A", "prod_A", payment_intent.amount, "usd",
                               pi_id(payment_intent), 0)
         IN \/ /\ payment_history' = insert_payment_history(payment_history, row)
               /\ call' = [call EXCEPT !.recorded = @ \cup {payment_intent},
                                       !.last = payment_intent.payment, !.n = @ + 1]
            \/ /\ payment_history' = payment_history
               /\ call' = [call EXCEPT !.last = "raised", !.n = @ + 1]
    /\ UNCHANGED << settings, product_rules, nextRuleId, request, task, adminOps, adminLast >>

NextHistory == record_payment

SpecHistory == InitHistory /\ [][NextHistory]_vars

\* ------------------------------------------- the admin session guard
\* Two browsers, each with its own session cookie.
Clients == {"owner", "stranger"}

SESSION_SECRET == "session-secret"
ADMIN_PASSWORD == "admin"
StrongPassword == "Str0ng&LongPassw0rd!"

\* hashlib.sha256((salt + password).encode()).hexdigest()
hash_password(password, salt) == "sha256(" \o salt \o password \o ")"

\* _validate_admin_password: 16 characters, upper, lower, digit, special.
validate_admin_password(password) == password = StrongPassword

\* _verify_admin_password(password)
verify_admin_password(password) ==
    LET stored == get_setting("admin_password_hash")
        salt == IF Truthy(get_setting("admin_password_salt"))
                THEN get_setting("admin_password_salt") ELSE SESSION_SECRET
    IN IF ~Truthy(stored) THEN FALSE ELSE hash_password(password, salt) = stored

\* Variant: any request counts as the administrator's.
verify_admin_anyone(client) == TRUE

\* verify_admin(request): request.session.get("admin") == True
verify_admin(client) == call.admin[client] = TRUE

\* The settings table with the password keys, after init_db and
\* _ensure_admin_password on first launch.
AuthSettingKeys == SettingKeys \cup {"admin_password_hash", "admin_password_salt"}

InitAuth ==
    /\ settings = [k \in AuthSettingKeys |->
                     CASE k = "admin_password_salt" -> SESSION_SECRET
                       [] k = "admin_password_hash" -> hash_password(ADMIN_PASSWORD, SESSION_SECRET)
                       [] OTHER -> None]
    /\ product_rules = { Rule(1, "prod_A", "telegram", "4242", TRUE) }
    /\ nextRuleId = 2
    /\ payment_history = << >>
    /\ request = [r \in Reqs |-> NoRequest]
    /\ task = [r \in Reqs |-> NoTask]
    /\ adminOps = 0
    /\ adminLast = NoAdmin
    /\ call = [fn |-> "admin", admin |-> [c \in Clients |-> FALSE], n |-> 0,
               last |-> [client |-> None, endpoint |-> None, status |-> 0,
                         sent |-> FALSE, password |-> None]]

\* The request just served: who sent it, to which endpoint, the status
\* returned, and whether the handler got as far as an outgoing call (SMTP,
\* Stripe, Telegram).
Served(client, endpoint, status, sent) ==
    [call EXCEPT !.n = @ + 1,
                 !.last = [client |-> client, endpoint |-> endpoint, status |-> status,
                           sent |-> sent, password |-> None]]

\* "if not verify_admin(request): raise HTTPException(status_code=401)"
Unauthorized(client, endpoint) ==
    /\ call' = Served(client, endpoint, 401, FALSE)
    /\ UNCHANGED << settings, product_rules, nextRuleId >>

AuthUnchanged == UNCHANGED << payment_history, request, task, adminOps, adminLast >>

\* POST /admin/login
post_admin_login(client) ==
    /\ call.n < MaxAuthReq
    /\ \E password \in {ADMIN_PASSWORD, "guess", StrongPassword} :
         call' = IF verify_admin_password(password)
                 THEN [Served(client, "login", 302, FALSE) EXCEPT
                         !.admin[client] = TRUE, !.last.password = password]
                 ELSE [Served(client, "login", 401, FALSE) EXCEPT !.last.password = password]
    /\ UNCHANGED << settings, product_rules, nextRuleId >>
    /\ AuthUnchanged

\* GET /admin/logout: request.session.clear()
get_admin_logout(client) ==
    /\ call.n < MaxAuthReq
    /\ call' = [Served(client, "logout", 302, FALSE) EXCEPT !.admin[client] = FALSE]
    /\ UNCHANGED << settings, product_rules, nextRuleId >>
    /\ AuthUnchanged

\* POST /admin/stripe/api-key
post_admin_stripe_api_key(client) ==
    /\ call.n < MaxAuthReq
    /\ IF ~verify_admin(client) THEN Unauthorized(client, "save_stripe_api_key")
       ELSE \E api_key \in {" ", "sk_2"} :
              IF api_key = " "
              THEN /\ call' = Served(client, "save_stripe_api_key", 302, FALSE)
                   /\ UNCHANGED << settings, product_rules, nextRuleId >>
              ELSE /\ settings' = set_setting(settings, "stripe_api_key", api_key)
                   /\ call' = Served(client, "save_stripe_api_key", 302, FALSE)
                   /\ UNCHANGED << product_rules, nextRuleId >>
    /\ AuthUnchanged

\* POST /admin/stripe/webhook: without an API key nothing is called; else
\* Stripe fails, or has the endpoint already, or creates it with a secret.
post_admin_stripe_webhook(client) ==
    /\ call.n < MaxAuthReq
    /\ IF ~verify_admin(client) THEN Unauthorized(client, "create_webhook")
       ELSE IF ~Truthy(get_setting("stripe_api_key"))
       THEN /\ call' = Served(client, "create_webhook", 302, FALSE)
            /\ UNCHANGED << settings, product_rules, nextRuleId >>
       ELSE \E stripe_answer \in {"error", "existing", "created"} :
              /\ settings' = IF stripe_answer = "created"
                             THEN set_setting(settings, "webhook_secret", "whsec_2")
                             ELSE settings
              /\ call' = Served(client, "create_webhook",
                                IF stripe_answer = "existing"
                                   /\ ~Truthy(get_setting("webhook_secret"))
                                THEN 500 ELSE 302, TRUE)
              /\ UNCHANGED << product_rules, nextRuleId >>
    /\ AuthUnchanged

\* POST /admin/products/rule
post_admin_products_rule(client) ==
    /\ call.n < MaxAuthReq
    /\ IF ~verify_admin(client) THEN Unauthorized(client, "add_rule")
       ELSE \E action_type \in {"email", "sms"} :
              LET added == add_product_rule(product_rules, nextRuleId, "prod_A",
                                            action_type, strip(" ops@example.com "))
              IN IF action_type \notin {"email", "telegram"}
                 THEN /\ call' = Served(client, "add_rule", 400, FALSE)
                      /\ UNCHANGED << settings, product_rules, nextRuleId >>
                 ELSE /\ product_rules' = added.rules
                      /\ nextRuleId' = added.next_id
                      /\ call' = Served(client, "add_rule",
                                        IF added.error THEN 500 ELSE 302, FALSE)
                      /\ UNCHANGED settings
    /\ AuthUnchanged

\* POST /admin/products/rule/{rule_id}/delete
post_admin_products_rule_delete(client) ==
    /\ call.n < MaxAuthReq
    /\ IF ~verify_admin(client) THEN Unauthorized(client, "delete_rule")
       ELSE \E rule_id \in 1..2 :
              /\ product_rules' = delete_product_rule(product_rules, rule_id)
              /\ call' = Served(client, "delete_rule", 302, FALSE)
              /\ UNCHANGED << settings, nextRuleId >>
    /\ AuthUnchanged

\* POST /admin/products/rule/{rule_id}/toggle
post_admin_products_rule_toggle(client) ==
    /\ call.n < MaxAuthReq
    /\ IF ~verify_admin(client) THEN Unauthorized(client, "toggle_rule")
       ELSE \E rule_id \in 1..2 : \E new_state \in BOOLEAN :
              /\ product_rules' = set_rule_enabled(product_rules, rule_id, new_state)
              /\ call' = Served(client, "toggle_rule", 302, FALSE)
              /\ UNCHANGED << settings, nextRuleId >>
    /\ AuthUnchanged

\* POST /admin/smtp
post_admin_smtp(client) ==
    /\ call.n < MaxAuthReq
    /\ IF ~verify_admin(client) THEN Unauthorized(client, "save_smtp")
       ELSE /\ settings' = set_setting(set_setting(settings, "smtp_host", "smtp.example.com"),
                                       "smtp_port", "587")
            /\ call' = Served(client, "save_smtp", 302, FALSE)
            /\ UNCHANGED << product_rules, nextRuleId >>
    /\ AuthUnchanged

\* POST /admin/smtp/test: send_email to the address given.
post_admin_smtp_test(client) ==
    /\ call.n < MaxAuthReq
    /\ IF ~verify_admin(client) THEN Unauthorized(client, "test_smtp")
       ELSE \E outcome \in send_email("test@example.com") :
              call' = Served(client, "test_smtp", IF outcome = "raise" THEN 500 ELSE 302,
                             outcome \in {"sent", "failed"})
    /\ UNCHANGED << settings, product_rules, nextRuleId >>
    /\ AuthUnchanged

\* POST /admin/telegram: an empty token is ignored; otherwise the token is
\* verified with Telegram and stored if the bot answers.
post_admin_telegram(client) ==
    /\ call.n < MaxAuthReq
    /\ IF ~verify_admin(client) THEN Unauthorized(client, "save_telegram")
       ELSE \E bot_token \in {" ", "tok_2"} : \E ok \in BOOLEAN :
              IF strip(bot_token) = "" \/ ~ok
              THEN /\ call' = Served(client, "save_telegram", 302, strip(bot_token) # "")
                   /\ UNCHANGED << settings, product_rules, nextRuleId >>
              ELSE /\ settings' = set_setting(settings, "telegram_bot_token", strip(bot_token))
                   /\ call' = Served(client, "save_telegram", 302, TRUE)
                   /\ UNCHANGED << product_rules, nextRuleId >>
    /\ AuthUnchanged

\* POST /admin/account/password
post_admin_account_password(client) ==
    /\ call.n < MaxAuthReq
    /\ IF ~verify_admin(client) THEN Unauthorized(client, "change_password")
       ELSE \E current_password \in {ADMIN_PASSWORD, "guess"} :
            \E new_password \in {"short", StrongPassword} :
              IF ~verify_admin_password(current_password)
                 \/ ~validate_admin_password(new_password)
              THEN /\ call' = Served(client, "change_password", 302, FALSE)
                   /\ UNCHANGED << settings, product_rules, nextRuleId >>
              ELSE /\ settings' = set_setting(settings, "admin_password_hash",
                                    hash_password(new_password,
                                                  get_setting("admin_password_salt")))
                   /\ call' = Served(client, "change_password", 302, FALSE)
                   /\ UNCHANGED << product_rules, nextRuleId >>
    /\ AuthUnchanged

NextAuth ==
    \/ \E client \in Clients : post_admin_login(client)
    \/ \E client \in Clients : get_admin_logout(client)
    \/ \E client \in Clients : post_admin_stripe_api_key(client)
    \/ \E client \in Clients : post_admin_stripe_webhook(client)
    \/ \E client \in Clients : post_admin_products_rule(client)
    \/ \E client \in Clients : post_admin_products_rule_delete(client)
    \/ \E client \in Clients : post_admin_products_rule_toggle(client)
    \/ \E client \in Clients : post_admin_smtp(client)
    \/ \E client \in Clients : post_admin_smtp_test(client)
    \/ \E client \in Clients : post_admin_telegram(client)
    \/ \E client \in Clients : post_admin_account_password(client)

SpecAuth == InitAuth /\ [][NextAuth]_vars

\* =================================================================== claims
TxIds == { e.id : e \in Events }

\* Number of payment_history rows carrying a transaction id.
HistoryCount(tx) ==
    Cardinality({ k \in 1..Len(payment_history) : payment_history[k].payment_intent_id = tx })

\* The task of request r has returned from insert_payment_history.
PastInsert(r) == task[r].pc = "dispatch" \/ task[r].result \in {"completed", "send_error"}

\* The task of request r looked the rules up and found none enabled.
ResolvedNoRules(r) == task[r].looked_up /\ task[r].rules = << >>

\* Request r was authenticated by construct_event.
Authenticated(r) == request[r].kind = "authentic" /\ request[r].sig_checked

\* Deliveries of a payment-succeeded event with transaction id tx and an
\* extractable product id.
Deliveries(tx) ==
    { r \in Reqs : /\ Authenticated(r)
                   /\ request[r].event.type = SucceededType
                   /\ request[r].event.id = tx
                   /\ \E p \in 1..Len(paths) :
                        get_nested(request[r].event, paths[p]) \notin {None, ""} }

C2_AtMostOnePerTx == \A tx \in TxIds : HistoryCount(tx) <= 1

\* Two tasks of the same transaction with different product names were both
\* in flight before either insert and have both inserted.
C2_Witness ==
    \E r1, r2 \in Reqs :
        /\ r1 # r2
        /\ task[r1].event.id = task[r2].event.id
        /\ task[r1].pc = "dispatch" /\ task[r2].pc = "dispatch"
        /\ task[r1].outcomes = << >> /\ task[r2].outcomes = << >>
        /\ task[r1].product_name # task[r2].product_name
        /\ HistoryCount(task[r1].event.id) = 1

C4_FailClosed ==
    [][ \A r \in Reqs :
          (request[r].status = 0 /\ request'[r].status # 0
             /\ settings["webhook_secret"] \in {None, ""})
            => /\ request'[r].status = 500
               /\ ~request'[r].sig_checked
               /\ task' = task
               /\ payment_history' = payment_history ]_vars

\* An authentic payment event was rejected for want of a secret.
C4_Witness ==
    \E r \in Reqs :
        /\ request[r].status = 500
        /\ request[r].kind = "authentic"
        /\ request[r].event.type = SucceededType
        /\ task[r] = NoTask

\* C5: a request whose body is malformed or whose signature does not verify
\* is answered 400 and never gets a background task, so it neither writes
\* history nor sends.
C5_RejectedNoEffects ==
    \A r \in Reqs :
        (request[r].kind \in {"malformed", "bad_signature"} /\ request[r].sig_checked)
            => request[r].status = 400 /\ task[r] = NoTask

C5_Witness ==
    \E r1, r2 \in Reqs :
        /\ request[r1].kind = "malformed" /\ request[r1].status = 400
        /\ request[r2].kind = "bad_signature" /\ request[r2].status = 400

\* C6: every authenticated request is answered 200; for an event type other
\* than payment_intent.succeeded no background task exists.
C6_AckAnyType ==
    \A r \in Reqs :
        Authenticated(r)
            => /\ request[r].status = 200
               /\ request[r].event.type # SucceededType => task[r] = NoTask

C6_Witness ==
    \E r \in Reqs :
        /\ Authenticated(r)
        /\ request[r].event.type # SucceededType
        /\ request[r].status = 200

\* C7: an authenticated payment-succeeded event with no non-empty product id
\* under any of the three paths is acknowledged with 200, and its task stops
\* at the extraction: no rule lookup, no insert, no send.
C7_ExtractionFailed ==
    \A r \in Reqs :
        ( /\ Authenticated(r)
          /\ request[r].event.type = SucceededType
          /\ \A p \in 1..Len(paths) : get_nested(request[r].event, paths[p]) \in {None, ""} )
            => /\ request[r].status = 200
               /\ task[r].pc \in {"scheduled", "done"}
               /\ task[r].pc = "done" => task[r].result = "extraction_failed"
               /\ ~task[r].looked_up
               /\ ~PastInsert(r)
               /\ task[r].outcomes = << >>

C7_Witness ==
    \E r \in Reqs :
        /\ Authenticated(r)
        /\ task[r].result = "extraction_failed"
        /\ request[r].event.metadata_product_id = ""
        /\ request[r].status = 200
        /\ \E q \in Reqs : PastInsert(q)

\* C8 as stated: no send failure leaves process_payment_succeeded as an
\* exception, and a task that is over has attempted every resolved rule once.
C8_AsStated ==
    \A r \in Reqs :
        PastInsert(r)
            => /\ task[r].pc # "raised"
               /\ task[r].pc = "done" => Len(task[r].outcomes) = Len(task[r].rules)

\* C9: two completed deliveries of one transaction id have each attempted
\* every one of their resolved rules, while the history holds one row for it.
C9_NoDispatchDedup ==
    \A r1, r2 \in Reqs :
        ( /\ r1 # r2
          /\ task[r1].event.id = task[r2].event.id
          /\ task[r1].result = "completed" /\ task[r2].result = "completed" )
            => /\ Len(task[r1].outcomes) = Len(task[r1].rules)
               /\ Len(task[r2].outcomes) = Len(task[r2].rules)
               /\ Len(task[r2].rules) >= 1
               /\ HistoryCount(task[r1].event.id) = 1

\* Both deliveries sent to both rules of the product; one row.
C9_Witness ==
    \E r1, r2 \in Reqs :
        /\ r1 # r2
        /\ task[r1].event.id = task[r2].event.id
        /\ task[r1].rules = task[r2].rules
        /\ Len(task[r1].rules) = 2
        /\ task[r1].outcomes = << "sent", "sent" >>
        /\ task[r2].outcomes = << "sent", "sent" >>
        /\ HistoryCount(task[r1].event.id) = 1

\* C10: a background task exists only for a request already answered 200,
\* and no step changes a response once it has been given.
C10_ResponseDecidedFirst ==
    /\ [](\A r \in Reqs : task[r].pc # "none" => request[r].status = 200)
    /\ [][ \A r \in Reqs : request[r].status # 0 => request'[r] = request[r] ]_vars

\* Tasks ended by a store error, a send exception and an extraction failure,
\* each behind a 200.
C10_Witness ==
    \E r \in Reqs :
        /\ task[r].pc = "raised"
        /\ request[r].status = 200
        /\ \E q \in Reqs : task[q].pc = "done" /\ request[q].status = 200

\* C11: a task that has attempted a send (or was ended by one) did so after
\* its insert_payment_history call returned: the row of its transaction id
\* is in the history, and the task is past the insert.
C11_InsertBeforeSend ==
    \A r \in Reqs :
        (task[r].outcomes # << >> \/ task[r].result = "send_error")
            => HistoryCount(task[r].event.id) = 1 /\ PastInsert(r)

\* A send has been attempted while further rules are still to be dispatched.
C11_Witness ==
    \E r \in Reqs :
        /\ Len(task[r].outcomes) = 1
        /\ task[r].pc = "dispatch"
        /\ HistoryCount(task[r].event.id) = 1

\* C12: no step changes or removes a row that is in payment_history: every
\* step leaves the existing rows in place and at most appends.
C12_RowsImmutable ==
    [][ /\ Len(payment_history') >= Len(payment_history)
        /\ \A k \in 1..Len(payment_history) : payment_history'[k] = payment_history[k]
      ]_vars

\* A later delivery of a recorded transaction id with another amount is past
\* its insert, and the row still carries the first amount.
C12_Witness ==
    \E r \in Reqs : \E k \in 1..Len(payment_history) :
        /\ PastInsert(r)
        /\ payment_history[k].payment_intent_id = task[r].event.id
        /\ payment_history[k].amount = 1999
        /\ task[r].event.amount = 2500

\* The same with another product id.
C12_WitnessProduct ==
    \E r \in Reqs : \E k \in 1..Len(payment_history) :
        /\ PastInsert(r)
        /\ payment_history[k].payment_intent_id = task[r].event.id
        /\ payment_history[k].product_id # task[r].product_id

\* (product_id, channel, destination) of the rows of the rule store.
RuleTriple(row) == << row.product_id, row.action_type, row.action_value >>

\* C13 as stated: the triples of the rule store are unique, and an add_rule
\* request with a valid type and destination never ends in an error, also
\* when the triple is already stored.
C13_AsStated ==
    /\ \A a, b \in product_rules : RuleTriple(a) = RuleTriple(b) => a = b
    /\ (adminLast.op = "add_rule" /\ adminLast.action_type \in {"email", "telegram"}
          /\ adminLast.action_value # "")
         => adminLast.status = 302

\* C14 as stated: every send of a task has a result that the settings as
\* they were when its request was handled allow: a later settings change
\* does not reach the task.
C14_AsStated ==
    \A r \in Reqs :
        /\ \A i \in 1..Len(task[r].outcomes) :
             task[r].outcomes[i] \in rule_result(request[r].config, task[r].rules[i])
        /\ task[r].result = "send_error"
             => "raise" \in rule_result(request[r].config,
                                        task[r].rules[Len(task[r].outcomes) + 1])

\* C14 amended: settings are not a snapshot: each send reads them when it is
\* called, so its result is one that the settings table of that moment
\* allows, whatever the table held when the request came in.
C14_LiveSettings ==
    [][ \A r \in Reqs :
          /\ Len(task'[r].outcomes) = Len(task[r].outcomes) + 1
               => task'[r].outcomes[Len(task'[r].outcomes)]
                    \in rule_result(settings, task[r].rules[Len(task'[r].outcomes)])
          /\ (task'[r].result = "send_error" /\ task[r].result # "send_error")
               => "raise" \in rule_result(settings, task[r].rules[Len(task[r].outcomes) + 1])
      ]_vars

\* SMTP was configured when the request came in, the host was cleared while
\* the task was in flight, and the email send found it not configured.
C14_Witness ==
    \E r \in Reqs :
        /\ task[r].outcomes # << >>
        /\ task[r].rules[1].type = "email"
        /\ task[r].outcomes[1] = "not_configured"
        /\ Truthy(request[r].config["smtp_host"])
        /\ Truthy(request[r].config["smtp_port"])
        /\ request[r].config["smtp_port"] \in NumericPorts

\* C15: the rule list of a task is the enabled rules of its product as read
\* by the one lookup; no later step changes it, each send goes to the next
\* rule of that list, and a task that ran to the end has sent to all of it,
\* whatever the rule store holds by then.
C15_RulesReadOnce ==
    /\ [](\A r \in Reqs : task[r].result = "completed"
                            => Len(task[r].outcomes) = Len(task[r].rules))
    /\ [][ \A r \in Reqs :
             /\ (task'[r].looked_up /\ ~task[r].looked_up)
                  => task'[r].rules = get_product_rules(task'[r].product_id)
             /\ task[r].looked_up => task'[r].rules = task[r].rules
             /\ Len(task'[r].outcomes) \in {Len(task[r].outcomes), Len(task[r].outcomes) + 1}
         ]_vars

\* A task has sent to a rule that was disabled or deleted after the lookup.
C15_Witness ==
    \E r \in Reqs :
        /\ task[r].result = "completed"
        /\ \E i \in 1..Len(task[r].rules) :
             /\ task[r].outcomes[i] = "sent"
             /\ ~\E row \in product_rules : row.id = task[r].rules[i].id /\ row.enabled

\* A task ran to the end without sending to a rule of its product that was
\* enabled or added after the lookup.
C15_WitnessLater ==
    \E r \in Reqs :
        /\ task[r].result = "completed"
        /\ \E row \in product_rules :
             /\ row.product_id = task[r].product_id /\ row.enabled
             /\ \A i \in 1..Len(task[r].rules) : task[r].rules[i].id # row.id

\* The value a payload holds under a key path, read off directly: the leaf at
\* the path, a dict if the path leads to one, None otherwise.
ValueUnder(data, path) ==
    IF path \in DOMAIN data THEN data[path]
    ELSE IF \E q \in DOMAIN data : IsPrefix(path, q) THEN DictValue
    ELSE NullLeaf

PaymentDetailsOrderReference == << "data", "object", "payment_details", "order_reference" >>
MetadataProductId == << "data", "object", "metadata", "product_id" >>
MetadataOrderReference == << "data", "object", "metadata", "order_reference" >>

NonEmpty(v) == v \notin {NullLeaf, StrLeaf(""), IntLeaf(0)}

\* C16: extract_product_id returns the string form of the value under
\* payment_details.order_reference if that is non-empty, else of the one under
\* metadata.product_id, else of the one under metadata.order_reference, and
\* None exactly when none of the three holds a non-empty value.
C16_FirstMatchWins ==
    (call.fn = "extract_product_id" /\ call.returned)
        => LET pd == ValueUnder(call.data, PaymentDetailsOrderReference)
               mp == ValueUnder(call.data, MetadataProductId)
               mo == ValueUnder(call.data, MetadataOrderReference)
           IN /\ NonEmpty(pd) => call.result = str(pd)
              /\ (~NonEmpty(pd) /\ NonEmpty(mp)) => call.result = str(mp)
              /\ (~NonEmpty(pd) /\ ~NonEmpty(mp) /\ NonEmpty(mo)) => call.result = str(mo)
              /\ (call.result = None) <=> (~NonEmpty(pd) /\ ~NonEmpty(mp) /\ ~NonEmpty(mo))
              /\ (pd = IntLeaf(7)) => call.result = "7"

\* The first path holds an empty string and is skipped; the second wins over
\* the third.
C16_Witness ==
    /\ call.fn = "extract_product_id" /\ call.returned
    /\ ValueUnder(call.data, PaymentDetailsOrderReference) = StrLeaf("")
    /\ ValueUnder(call.data, MetadataOrderReference) = StrLeaf("prod_B")
    /\ call.result = "prod_A"

\* The ids a resolution of the product returns.
Resolved(product_id) ==
    { get_product_rules(product_id)[i].id : i \in 1..Len(get_product_rules(product_id)) }

AllProducts == RuleProducts \cup {"prod_C"}

\* C17: whatever add_product_rule, delete_product_rule and set_rule_enabled
\* calls came before, resolving a product returns each stored, enabled rule
\* of that product once and nothing else, so the empty list when there is
\* none; a rule just added is returned, one just disabled or deleted is not,
\* one just re-enabled is again, and no call changes the resolution of
\* another rule.
C17_EnabledRulesResolved ==
    /\ [](\A product_id \in AllProducts :
            LET rules == get_product_rules(product_id)
            IN /\ \A i \in 1..Len(rules) :
                    \E row \in product_rules :
                      /\ row.id = rules[i].id /\ row.product_id = product_id /\ row.enabled
                      /\ row.action_type = rules[i].type /\ row.action_value = rules[i].value
               /\ \A row \in product_rules :
                    (row.product_id = product_id /\ row.enabled) => row.id \in Resolved(product_id)
               /\ Len(rules) = Cardinality(Resolved(product_id))
               /\ (~\E row \in product_rules : row.product_id = product_id /\ row.enabled)
                    => rules = << >>)
    /\ [][ /\ (call'.fn = "add_product_rule" /\ call'.result)
               => \A product_id \in AllProducts :
                    call'.product_id = product_id => call'.id \in Resolved(product_id)'
           /\ (call'.fn = "delete_product_rule" \/ (call'.fn = "set_rule_enabled" /\ ~call'.enabled))
               => \A product_id \in AllProducts : call'.id \notin Resolved(product_id)'
           /\ (call'.fn = "set_rule_enabled" /\ call'.enabled)
               => \A row \in product_rules :
                    row.id = call'.id => call'.id \in Resolved(row.product_id)'
           /\ call'.fn \in {"add_product_rule", "delete_product_rule", "set_rule_enabled"}
               => \A product_id \in AllProducts :
                    Resolved(product_id)' \ {call'.id} = Resolved(product_id) \ {call'.id}
         ]_vars

\* A rule that was added, disabled and enabled again resolves.
C17_Witness ==
    /\ call.fn = "set_rule_enabled" /\ call.enabled /\ call.was = "disabled"
    /\ \E product_id \in RuleProducts : call.id \in Resolved(product_id)

\* Rules are stored for the product, all disabled: the resolution is empty.
C17_WitnessAllDisabled ==
    /\ call.fn = "set_rule_enabled" /\ ~call.enabled /\ call.was = "enabled"
    /\ \E row \in product_rules : row.product_id = "prod_A"
    /\ get_product_rules("prod_A") = << >>

\* What each step of the stated order finds in a payment intent.
BillingName(pi) == IF pi.charges /\ Truthy(pi.billing_name) THEN pi.billing_name ELSE ""
BillingEmail(pi) == IF pi.charges /\ Truthy(pi.billing_email) THEN pi.billing_email ELSE ""
OtherName(pi) ==
    IF Truthy(pi.shipping_name) THEN pi.shipping_name
    ELSE IF Truthy(pi.metadata_customer_name) THEN pi.metadata_customer_name
    ELSE IF Truthy(pi.metadata_name) THEN pi.metadata_name ELSE ""
OtherEmail(pi) ==
    IF Truthy(pi.receipt_email) THEN pi.receipt_email
    ELSE IF Truthy(pi.metadata_customer_email) THEN pi.metadata_customer_email
    ELSE IF Truthy(pi.metadata_email) THEN pi.metadata_email ELSE ""

\* C18 as stated: the name is the billing name, else the shipping / metadata
\* name, else the customer's; the email likewise with the receipt email; a
\* value found earlier is kept; and the customer is retrieved from Stripe
\* only if the name or the email was still missing before the lookup.
C18_AsStated ==
    (call.fn = "client_info" /\ call.returned)
        => LET pi == call.pi
               found == call.result
           IN /\ BillingName(pi) # "" => found.client_name = BillingName(pi)
              /\ (BillingName(pi) = "" /\ OtherName(pi) # "")
                   => found.client_name = OtherName(pi)
              /\ BillingEmail(pi) # "" => found.client_email = BillingEmail(pi)
              /\ (BillingEmail(pi) = "" /\ OtherEmail(pi) # "")
                   => found.client_email = OtherEmail(pi)
              /\ found.retrieved
                   => (BillingName(pi) = "" /\ OtherName(pi) = "")
                        \/ (BillingEmail(pi) = "" /\ OtherEmail(pi) = "")

\* The result of sending to rule i of a task whose channel lacks its credential.
MissingCredential(rule) ==
    \/ rule.type = "email" /\ ~Truthy(settings["smtp_host"])
    \/ rule.type = "telegram" /\ ~Truthy(settings["telegram_bot_token"])

\* C19: under a fixed configuration, a rule whose channel has no credential
\* (no smtp_host for email, no telegram_bot_token for telegram) ends in the
\* "not configured" failure result, returned before any connection or
\* request is made, whatever the port setting is; it never raises, and the
\* loop goes on to the next rule.
C19_MissingCredentialSkipped ==
    /\ [](\A r \in Reqs :
            /\ \A i \in 1..Len(task[r].outcomes) :
                 /\ MissingCredential(task[r].rules[i]) <=> task[r].outcomes[i] = "not_configured"
                 /\ task[r].outcomes[i] = "not_configured"
                      => \/ Len(task[r].outcomes) > i
                         \/ IF i < Len(task[r].rules) THEN task[r].pc = "dispatch"
                            ELSE task[r].result = "completed"
            /\ task[r].result = "send_error"
                 => ~MissingCredential(task[r].rules[Len(task[r].outcomes) + 1]))
    /\ [][ \A r \in Reqs :
             (task[r].pc = "dispatch"
                /\ MissingCredential(task[r].rules[Len(task[r].outcomes) + 1])
                /\ task'[r] # task[r])
               => /\ task'[r].outcomes = Append(task[r].outcomes, "not_configured")
                  /\ task'[r].pc \in {"dispatch", "done"}
         ]_vars

\* No SMTP host: the email rule is skipped and the telegram rule after it is
\* still sent.
C19_Witness ==
    \E r \in Reqs :
      /\ task[r].result = "completed"
      /\ task[r].rules[1].type = "email"
      /\ settings["smtp_port"] = "abc"
      /\ task[r].outcomes = << "not_configured", "sent" >>

\* No bot token: the telegram rule is skipped and the email rule after it is
\* still sent.
C19_WitnessTelegram ==
    \E r \in Reqs :
      /\ task[r].result = "completed"
      /\ task[r].rules[1].type = "telegram"
      /\ task[r].outcomes = << "not_configured", "sent" >>

\* The position of an smtplib call in a session, 0 if it was not made.
Position(steps, step) ==
    IF \E i \in 1..Len(steps) : steps[i] = step
    THEN CHOOSE i \in 1..Len(steps) : steps[i] = step
    ELSE 0

\* C20: with a host and a usable port, send_email connects with SMTP_SSL in
\* mode ssl, and with a plain SMTP connection otherwise, which it upgrades
\* with STARTTLS in mode starttls (the mode when none is stored) and leaves
\* as it is in mode none; without a stored port it connects to port 465, 587
\* and 25 respectively, and with a stored port to that one; a login is only
\* ever sent on an encrypted or upgraded connection, except in mode none.
C20_TransportBySecurity ==
    (call.fn = "send_email" /\ call.returned /\ call.session.result \in {"sent", "failed"})
        => LET mode == IF call.security = None THEN "starttls" ELSE call.security
               steps == call.session.steps
           IN /\ mode = "ssl" => steps[1] = "SMTP_SSL" /\ Position(steps, "starttls") = 0
              /\ mode = "starttls" => /\ steps[1] = "SMTP"
                                      /\ Len(steps) > 1 => steps[2] = "starttls"
              /\ mode = "none" => steps[1] = "SMTP" /\ Position(steps, "starttls") = 0
              /\ call.port_str = None
                   => call.session.port = CASE mode = "ssl" -> 465
                                            [] mode = "starttls" -> 587
                                            [] OTHER -> 25
              /\ call.port_str = "2525" => call.session.port = 2525
              /\ Position(steps, "login") # 0
                   => /\ call.user # None /\ call.password # None
                      /\ \/ mode = "none"
                         \/ steps[1] = "SMTP_SSL"
                         \/ Position(steps, "starttls") \in 1..(Position(steps, "login") - 1)
              /\ call.session.result = "sent"
                   => /\ steps[Len(steps)] = "sendmail"
                      /\ (call.user # None /\ call.password # None)
                           => Position(steps, "login") # 0

\* Mode starttls by default, no stored port: port 587, upgrade, then login.
C20_Witness ==
    /\ call.fn = "send_email" /\ call.returned
    /\ call.security = None /\ call.port_str = None
    /\ call.session = [result |-> "sent", port |-> 587,
                       steps |-> << "SMTP", "starttls", "login", "sendmail" >>]

\* Mode none: the login goes over the plain connection.
C20_WitnessPlain ==
    /\ call.fn = "send_email" /\ call.returned
    /\ call.security = "none" /\ call.port_str = None
    /\ call.session = [result |-> "sent", port |-> 25,
                       steps |-> << "SMTP", "login", "sendmail" >>]

\* C21 as stated: every payment whose insert committed has a history row of
\* its own, keyed by the id its object carries, or by "unknown" if it carries
\* none, and holding its amount: as many rows as payments recorded.
C21_AsStated ==
    call.fn = "insert_payment_history"
        => /\ \A p \in call.recorded :
                \E k \in 1..Len(payment_history) :
                  /\ payment_history[k].payment_intent_id
                       = (IF p.has_id THEN p.id ELSE "unknown")
                  /\ payment_history[k].amount = p.amount
           /\ Len(payment_history) = Cardinality({ p.payment : p \in call.recorded })

\* C22 as stated: whatever add_rule, delete_rule and toggle_rule requests
\* came before, every stored rule has type email or telegram and a non-empty
\* destination without surrounding whitespace; no send ends in the unknown
\* type branch; and a task that reached its dispatch loop has called the
\* channel of every rule it resolved, once each.
C22_AsStated ==
    /\ \A row \in product_rules :
         /\ row.action_type \in {"email", "telegram"}
         /\ row.action_value \notin {"", " "}
         /\ row.action_value = strip(row.action_value)
    /\ \A r \in Reqs :
         /\ \A i \in 1..Len(task[r].outcomes) : task[r].outcomes[i] # "unknown_type"
         /\ task[r].result = "completed" => Len(task[r].outcomes) = Len(task[r].rules)
         /\ task[r].result = "send_error" => Len(task[r].outcomes) + 1 = Len(task[r].rules)

StateChangingEndpoints ==
    { "save_stripe_api_key", "create_webhook", "add_rule", "delete_rule", "toggle_rule",
      "save_smtp", "test_smtp", "save_telegram", "change_password" }

\* C23: a request to a state-changing admin endpoint from a browser without
\* the admin session flag is answered 401, changes neither settings nor
\* rules and makes no outgoing call; the flag of a browser goes up only by
\* its own login with a password whose salted hash is the stored one, and is
\* down after its logout.
C23_AdminOnly ==
    [][ LET served == call'.last
        IN /\ (served.endpoint \in StateChangingEndpoints /\ ~call.admin[served.client])
                => /\ served.status = 401
                   /\ ~served.sent
                   /\ settings' = settings
                   /\ product_rules' = product_rules
                   /\ nextRuleId' = nextRuleId
           /\ \A client \in Clients :
                (call'.admin[client] /\ ~call.admin[client])
                  => /\ served.endpoint = "login" /\ served.client = client
                     /\ settings["admin_password_hash"]
                          = "sha256(" \o settings["admin_password_salt"]
                                      \o served.password \o ")"
           /\ served.endpoint = "logout" => ~call'.admin[served.client]
      ]_vars

\* The owner is logged in and has changed the settings; the stranger's
\* request to delete a rule was refused.
C23_Witness ==
    /\ call.fn = "admin"
    /\ call.admin["owner"] /\ ~call.admin["stranger"]
    /\ call.last.client = "stranger" /\ call.last.endpoint = "delete_rule"
    /\ call.last.status = 401
    /\ settings["smtp_host"] = "smtp.example.com"
    /\ product_rules # {}

====
